---- MODULE Spec2Model ----
(***************************************************************************)
(* Elastic-Rag: gateway dispatch/poll protocol, replica load accounting,   *)
(* the three stage workers and the retry/fallback protocol of the          *)
(* generate stage, over one shared Redis store.                            *)
(*                                                                         *)
(* Every Redis command is one atomic step.  A command that raises leaves   *)
(* the store unchanged.  Times are in milliseconds.                        *)
(***************************************************************************)
EXTENDS Integers, Sequences, FiniteSets, TLC

\* ------------------------------------------------------------------ bounds
NReq == 2            \* gateway requests over the run (job_id of request r is r)
MaxPolls == 2        \* sleeps of one poll loop before the deadline is certainly reached
NWorkers == 2        \* instances of each stage worker
MaxLoad == 2         \* largest counter value a selection starts from
MaxInject == 1       \* items pushed to the queues by other producers than the pipeline

\* --------------------------------------------------------------- constants
NReplicas == 3       \* len(LLM_REPLICAS)
Inf == 1000000       \* float('inf')

MAX_RETRIES == 5
INITIAL_BACKOFF == 500     \* 0.5 s
CompletionTtl == 3600      \* ex=3600

Req == 1..NReq
Replicas == 0..(NReplicas - 1)
Texts == {"", "q"}   \* QueryInput.query: pydantic accepts any str, the empty one too
Workers == 1..NWorkers
NoId == 0            \* job.get("job_id") of an item without one
Foreign == NReq + 1  \* the job_id of items that no gateway request published
Jobs == 1..Foreign

VARIABLES
    redis_client,    \* gateway global: TRUE = a client object, FALSE = None
    rr_counter,      \* gateway global _rr_counter
    load,            \* store keys llm_load_<i>: <<>> = no key, <<n>> = value n
    encoder_in,      \* list job:encoder_in, index 1 is the left end
    retriever_in,    \* list job:retriever_in
    llm_in,          \* list job:llm_in
    completion,      \* store keys job:completion:<j>: <<>> or <<record>>
    req,             \* locals of each process_rag_query call
    enc,             \* locals of each encoder_worker_loop
    ret,             \* locals of each retriever worker_loop
    gen,             \* locals of each generator worker_loop
    enable_fallback, \* ENABLE_FALLBACK of the generator's environment
    writes,          \* history: SET commands applied to each completion key
    injected,        \* history: items pushed by other producers
    calls            \* history: generation calls made for each job

gwvars == <<redis_client, rr_counter, load, req>>
wkvars == <<enc, ret, gen, enable_fallback>>
vars == <<redis_client, rr_counter, load, encoder_in, retriever_in, llm_in, completion,
          req, enc, ret, gen, enable_fallback, writes, injected, calls>>

\* int(redis_client.get(key) or 0)
IntOr0(v) == IF v = <<>> THEN 0 ELSE v[1]

\* INCR / DECR of the store: a missing key counts as 0
StoreIncr(i) == [load EXCEPT ![i] = <<IntOr0(@) + 1>>]
StoreDecr(i) == [load EXCEPT ![i] = <<IntOr0(@) - 1>>]

\* redis LPUSH: the new element becomes the left end
LPush(q, x) == <<x>> \o q
\* redis RPUSH
RPush(q, x) == Append(q, x)

\* Values of an answer field.  kind: "text" (a string produced by endpoint src
\* for job), "failure" (the string "LLM call failed: <error>", the error raised
\* by the call to endpoint src for job), "null" (None), "object" (a JSON
\* object).
Answer(kind, src, job) == [kind |-> kind, src |-> src, job |-> job]
NoAnswer == Answer("null", "", NoId)
EmptyString == Answer("text", "", NoId)
IsStr(a) == a.kind \in {"text", "failure"}

ReqInit ==
    [pc |-> "idle", idx |-> 0, min_load |-> Inf, best_index |-> 0,
     replica_idx |-> 0, load_key |-> FALSE, polls |-> 0, result |-> <<>>,
     exc |-> FALSE, status |-> 0, answer |-> NoAnswer, incd |-> 0, decs |-> 0,
     decd |-> 0, rr |-> FALSE, cancelled |-> FALSE, client |-> FALSE,
     read_fails |-> 0, reads |-> 0, label |-> 0]

EncInit == [pc |-> "pop", model |-> TRUE, job |-> <<>>]
RetInit == [pc |-> "pop", job |-> <<>>]
GenInit ==
    [pc |-> "pop", job_id |-> NoId, attempt |-> 0, backoff |-> 0, answer |-> NoAnswer,
     last_exc |-> <<>>, slept |-> 0, target |-> "default", exc |-> ""]

InitStore ==
    /\ rr_counter = 0
    /\ encoder_in = <<>>
    /\ retriever_in = <<>>
    /\ llm_in = <<>>
    /\ completion = [j \in Jobs |-> <<>>]
    /\ req = [r \in Req |-> ReqInit]
    /\ ret = [w \in Workers |-> RetInit]
    /\ gen = [w \in Workers |-> GenInit]
    /\ writes = [j \in Jobs |-> 0]
    /\ injected = 0
    /\ calls = [j \in Jobs |-> [primary |-> 0, fallback |-> 0, out |-> <<>>, targets |-> {},
                                 failed |-> 0, published |-> 0, embedded |-> 0,
                                 augmented |-> 0]]

\* The gateway starts with or without a client (lines 35-48); the workers are
\* up, the embedding model is loaded and the fallback has its default.
Init ==
    /\ InitStore
    /\ load = [i \in Replicas |-> <<>>]
    /\ redis_client \in BOOLEAN
    /\ enc = [w \in Workers |-> EncInit]
    /\ enable_fallback = TRUE

\* job_payload of the gateway
QueryJob(r, t, i) ==
    [json |-> "object", job_id |-> r, text |-> t, selected_replica_index |-> i]

\* --------------------------------------------------------------- gateway
\* Lines 110-134 and, without a client, 144-158: start of a request.  `ok` is
\* the outcome of the reconnect attempt made when the global client is None.
\* Mutant: the round-robin branch is taken whether or not there is a client.
UsesRoundRobinAlways(client) == TRUE

\* Line 129: if not redis_client
UsesRoundRobin(client) == ~client

GwStart(r, ok) ==
    /\ req[r].pc = "idle"
    /\ LET client == IF redis_client THEN TRUE ELSE ok
       IN  /\ redis_client' = client
           /\ IF UsesRoundRobin(client)
              THEN /\ rr_counter' = rr_counter + 1
                   /\ req' = [req EXCEPT ![r].replica_idx = rr_counter % NReplicas,
                                         ![r].load_key = FALSE,
                                         ![r].rr = TRUE,
                                         ![r].client = client,
                                         ![r].pc = IF client THEN "publish" ELSE "done",
                                         ![r].status = IF client THEN 0 ELSE 503]
              ELSE /\ rr_counter' = rr_counter
                   /\ req' = [req EXCEPT ![r].client = client, ![r].pc = "select"]
    /\ UNCHANGED <<load, encoder_in, retriever_in, llm_in, completion, wkvars, writes, injected, calls>>

\* Mutant: <= for <, so that among equal loads the last index wins.
SelectStepLastWins(sel, i, current_load) ==
    IF current_load <= sel.min_load
    THEN [min_load |-> current_load, best_index |-> i]
    ELSE sel

\* Lines 92-95: the comparison made for replica i with the load read for it.
SelectStep(sel, i, current_load) ==
    IF current_load < sel.min_load
    THEN [min_load |-> current_load, best_index |-> i]
    ELSE sel

\* Lines 79-81: the locals before the loop.
SelectInit == [min_load |-> Inf, best_index |-> 0]

\* Lines 83-97: one iteration of the loop of get_least_loaded_replica (a read
\* that raises counts as load 0) and, after the last one, lines 136-137.
GwSelectRead(r, fail) ==
    /\ req[r].pc = "select"
    /\ LET i == req[r].idx
           current_load == IF fail THEN 0 ELSE IntOr0(load[i])
           sel == SelectStep([min_load |-> req[r].min_load,
                              best_index |-> req[r].best_index], i, current_load)
           fails == req[r].read_fails + IF fail THEN 1 ELSE 0
       IN  IF i + 1 < NReplicas
           THEN req' = [req EXCEPT ![r].idx = i + 1, ![r].min_load = sel.min_load,
                                   ![r].best_index = sel.best_index,
                                   ![r].read_fails = fails]
           ELSE req' = [req EXCEPT ![r].idx = 0, ![r].min_load = Inf,
                                   ![r].best_index = 0,
                                   ![r].read_fails = fails,
                                   ![r].replica_idx = sel.best_index,
                                   ![r].load_key = TRUE,
                                   ![r].pc = "incr"]
    /\ UNCHANGED <<redis_client, rr_counter, load, encoder_in, retriever_in, llm_in, completion, wkvars, writes, injected, calls>>

\* Mutant: the handler keeps load_key after an INCR that raised.
LoadKeyKeptAfterIncrError(r) == req[r].load_key

\* What the handler at lines 141-142 leaves in load_key when the INCR of line
\* 139 raises.
LoadKeyAfterIncrError(r) == FALSE

\* Lines 138-139: INCR of the selected counter; a raise sets load_key = None.
GwIncr(r, fail) ==
    /\ req[r].pc = "incr"
    /\ IF fail
       THEN /\ load' = load
            /\ req' = [req EXCEPT ![r].load_key = LoadKeyAfterIncrError(r),
                                  ![r].read_fails = 0,
                                  ![r].pc = "publish"]
       ELSE /\ load' = StoreIncr(req[r].replica_idx)
            /\ req' = [req EXCEPT ![r].incd = @ + 1, ![r].read_fails = 0,
                                  ![r].pc = "gauge"]
    /\ UNCHANGED <<redis_client, rr_counter, encoder_in, retriever_in, llm_in, completion, wkvars, writes, injected, calls>>

\* What the handler at lines 141-142 leaves in load_key when the read-back of
\* line 140 raises.
LoadKeyAfterGaugeError(r) == FALSE

\* Line 140: the counter is read back for the gauge, in the same try block.
GwGauge(r, fail) ==
    /\ req[r].pc = "gauge"
    /\ req' = [req EXCEPT ![r].load_key = IF fail THEN LoadKeyAfterGaugeError(r) ELSE @,
                          ![r].pc = "publish"]
    /\ UNCHANGED <<redis_client, rr_counter, load, encoder_in, retriever_in, llm_in, completion, wkvars, writes, injected, calls>>

\* Mutant: the publish-failure handler decrements whether or not the request
\* holds an increment.
PublishFailureDecrementsAlways(r) == TRUE

\* Line 152: the publish-failure handler decrements only with a load_key.
PublishFailureDecrements(r) == req[r].load_key

\* Lines 146-158: LPUSH of the Query Job; on a raise the handler decrements
\* (next step) or, without a load_key, raises 503 at once.
GwPublish(r, t, fail) ==
    /\ req[r].pc = "publish"
    /\ IF fail
       THEN /\ encoder_in' = encoder_in
            /\ calls' = calls
            /\ IF PublishFailureDecrements(r)
               THEN req' = [req EXCEPT ![r].pc = "pubfail"]
               ELSE req' = [req EXCEPT ![r].pc = "done", ![r].status = 503]
       ELSE /\ encoder_in' = LPush(encoder_in, QueryJob(r, t, req[r].replica_idx))
            /\ calls' = [calls EXCEPT ![r].published = @ + 1]
            /\ req' = [req EXCEPT ![r].pc = "poll"]
    /\ UNCHANGED <<redis_client, rr_counter, load, retriever_in, llm_in, completion, wkvars, writes, injected>>

\* Mutant: the decrement goes to the first replica's counter.
DecrKeyFirst(r) == 0

\* Lines 154 and 181: redis_client.decr(load_key), load_key being the key built
\* at line 137 from the replica index selected for the request.
DecrKey(r) == req[r].replica_idx

\* Lines 153-158: DECR in the publish-failure handler, its error swallowed.
GwPubFailDecr(r, fail) ==
    /\ req[r].pc = "pubfail"
    /\ load' = IF fail THEN load ELSE StoreDecr(DecrKey(r))
    /\ req' = [req EXCEPT ![r].decs = @ + 1, ![r].decd = IF fail THEN @ ELSE @ + 1,
                          ![r].pc = "done", ![r].status = 503]
    /\ UNCHANGED <<redis_client, rr_counter, encoder_in, retriever_in, llm_in, completion, wkvars, writes, injected, calls>>

\* Lines 171-173: json.loads of the stored value; every stored value is JSON.
ParseResult(raw) == raw

\* Lines 167-176: one iteration of the poll loop.  GET raises: the exception
\* leaves the loop through the finally block.  A value: result is set.  No
\* value: sleep, then elapsed is measured again; `late` says the deadline was
\* reached during this sleep, and it is reached after MaxPolls sleeps at the
\* latest.
\* Mutant: elapsed is measured before the first check of the loop condition.
InitialElapsedFromClock(late) == late

\* Line 165: elapsed = 0.0, so the first check of `elapsed < timeout` never
\* finds the deadline reached, however late the request already is.
InitialElapsedReached(late) == FALSE

\* Mutant: the key is deleted once it has been read.
StoreAfterGetDeleted(c, k) == [c EXCEPT ![k] = <<>>]

\* Line 168: redis_client.get(completion_key) is a read; the store after it.
StoreAfterGet(c, k) == c

GwPoll(r, fail, late) ==
    /\ req[r].pc = "poll"
    /\ IF req[r].reads = 0 /\ InitialElapsedReached(late)
       THEN /\ req' = [req EXCEPT ![r].pc = "cleanup"]
            /\ completion' = completion
       ELSE IF fail
       THEN /\ req' = [req EXCEPT ![r].exc = TRUE, ![r].reads = @ + 1, ![r].pc = "cleanup"]
            /\ completion' = completion
       ELSE /\ completion' = StoreAfterGet(completion, r)
            /\ IF completion[r] # <<>>
               THEN req' = [req EXCEPT ![r].result = ParseResult(completion[r]),
                                       ![r].reads = @ + 1,
                                       ![r].pc = "cleanup"]
               ELSE IF late \/ req[r].polls + 1 >= MaxPolls
               THEN req' = [req EXCEPT ![r].polls = @ + 1, ![r].reads = @ + 1,
                                       ![r].pc = "cleanup"]
               ELSE req' = [req EXCEPT ![r].polls = @ + 1, ![r].reads = @ + 1]
    /\ UNCHANGED <<redis_client, rr_counter, load, encoder_in, retriever_in, llm_in, wkvars, writes, injected, calls>>

\* Line 175: the request's task is cancelled while suspended in the sleep that
\* follows a GET which found no record; CancelledError is raised at the await
\* and leaves the loop through the finally block.
GwCancel(r) ==
    /\ req[r].pc = "poll"
    /\ completion[r] = <<>>
    /\ req' = [req EXCEPT ![r].cancelled = TRUE, ![r].reads = @ + 1, ![r].pc = "cleanup"]
    /\ UNCHANGED <<redis_client, rr_counter, load, encoder_in, retriever_in, llm_in, completion, wkvars, writes, injected, calls>>

\* result.get("answer", "")
AnswerOf(result) ==
    IF "answer" \in DOMAIN result[1] THEN result[1].answer ELSE EmptyString

\* Mutant: the label shows the index itself.
ReplicaLabelZeroBased(i) == i

\* Line 199: selected_replica = f"replica-{replica_idx + 1}"; the number shown.
ReplicaLabel(i) == i + 1

\* Lines 188-199 and the propagation of an exception raised in the poll loop:
\* the response of a request whose cleanup is over.  FinalResponse.answer is
\* declared str, so any other value fails validation.  A cancelled task ends
\* without a response.
Respond(rq) ==
    IF rq.cancelled THEN [rq EXCEPT !.pc = "done"]
    ELSE IF rq.exc THEN [rq EXCEPT !.pc = "done", !.status = 500, !.result = <<>>]
    ELSE IF rq.result = <<>> THEN [rq EXCEPT !.pc = "done", !.status = 504]
    ELSE IF ~IsStr(AnswerOf(rq.result))
    THEN [rq EXCEPT !.pc = "done", !.status = 500, !.result = <<>>]
    ELSE [rq EXCEPT !.pc = "done", !.status = 200, !.answer = AnswerOf(rq.result),
                    !.label = ReplicaLabel(rq.replica_idx), !.result = <<>>]

\* Mutant: the cleanup decrements whether or not the request holds a load_key.
CleanupDecrementsAlways(r) == TRUE

\* Line 179: the cleanup decrements only with a load_key.
CleanupDecrements(r) == req[r].load_key

\* Line 182: the clamp is written when DECR returned a negative value.
NeedsClamp(new_val) == new_val < 0

\* Mutant: the timeout branch removes the request's Query Job from the queue.
EncoderInPurgedAfterTimeout(r) ==
    SelectSeq(encoder_in, LAMBDA item : ~("job_id" \in DOMAIN item /\ item.job_id = r))

\* Lines 192-194: the timeout branch raises 504 and issues no store command;
\* the encode queue after it.
EncoderInAfterTimeout(r) == encoder_in

\* Lines 177-186: the finally block.  At "cleanup" the DECR (its error is
\* swallowed); at "clamp" the SET key 0 that follows a negative DECR result.
GwCleanup(r, fail) ==
    /\ req[r].pc \in {"cleanup", "clamp"}
    /\ IF req[r].pc = "clamp"
       THEN /\ load' = IF fail THEN load ELSE [load EXCEPT ![DecrKey(r)] = <<0>>]
            /\ req' = [req EXCEPT ![r] = Respond(@)]
       ELSE IF ~CleanupDecrements(r)
       THEN /\ fail = FALSE
            /\ load' = load
            /\ req' = [req EXCEPT ![r] = Respond(@)]
       ELSE IF fail
       THEN /\ load' = load
            /\ req' = [req EXCEPT ![r] = Respond([@ EXCEPT !.decs = @ + 1])]
       ELSE /\ load' = StoreDecr(DecrKey(r))
            /\ LET new_val == IntOr0(load[DecrKey(r)]) - 1
                   rq == [req[r] EXCEPT !.decs = @ + 1, !.decd = @ + 1]
               IN  IF NeedsClamp(new_val)
                   THEN req' = [req EXCEPT ![r] = [rq EXCEPT !.pc = "clamp"]]
                   ELSE req' = [req EXCEPT ![r] = Respond(rq)]
    /\ encoder_in' = IF req'[r].status = 504 THEN EncoderInAfterTimeout(r) ELSE encoder_in
    /\ UNCHANGED <<redis_client, rr_counter, retriever_in, llm_in, completion, wkvars, writes, injected, calls>>

\* get_least_loaded_replica run on the counters as they are, no read raising.
RECURSIVE LeastLoadedFrom(_, _)
LeastLoadedFrom(i, sel) ==
    IF i = NReplicas THEN sel.best_index
    ELSE LeastLoadedFrom(i + 1, SelectStep(sel, i, IntOr0(load[i])))

\* Lines 110-149 run without a store error: in one gateway process nothing
\* else runs between the start of the handler and its first await (line 175),
\* and the workers touch neither the counters nor the gateway's globals.
GwDispatch(r, t) ==
    /\ req[r].pc = "idle"
    /\ redis_client
    /\ LET i == LeastLoadedFrom(0, SelectInit)
       IN  /\ load' = StoreIncr(i)
           /\ req' = [req EXCEPT ![r].replica_idx = i, ![r].load_key = TRUE,
                                 ![r].client = TRUE,
                                 ![r].incd = @ + 1, ![r].pc = "poll"]
           /\ encoder_in' = LPush(encoder_in, QueryJob(r, t, i))
           /\ calls' = [calls EXCEPT ![r].published = @ + 1]
    /\ UNCHANGED <<redis_client, rr_counter, retriever_in, llm_in, completion, wkvars, writes, injected>>

\* The gateway's steps, every store command raising or not.
Gateway ==
    \/ \E r \in Req, ok \in BOOLEAN : GwStart(r, ok)
    \/ \E r \in Req, fail \in BOOLEAN : GwSelectRead(r, fail)
    \/ \E r \in Req, fail \in BOOLEAN : GwIncr(r, fail)
    \/ \E r \in Req, fail \in BOOLEAN : GwGauge(r, fail)
    \/ \E r \in Req, t \in Texts, fail \in BOOLEAN : GwPublish(r, t, fail)
    \/ \E r \in Req, fail \in BOOLEAN : GwPubFailDecr(r, fail)
    \/ \E r \in Req, fail \in BOOLEAN, late \in BOOLEAN : GwPoll(r, fail, late)
    \/ \E r \in Req : GwCancel(r)
    \/ \E r \in Req, fail \in BOOLEAN : GwCleanup(r, fail)

\* ------------------------------------------------------- queue items
\* An item of a queue is the raw string a producer pushed.  json says what
\* json.loads makes of it: "bad" (it raises), "array" (a value that is no
\* object) or "object" (a dict with the record's other fields as keys).
HasKey(job, k) == k \in DOMAIN job
\* job.get(k) of a string field: a missing key and "" are both falsy
GetStr(job, k) == IF HasKey(job, k) THEN job[k] ELSE ""
\* job.get("job_id")
GetId(job) == IF HasKey(job, "job_id") THEN job.job_id ELSE NoId
\* job.get("selected_replica"): <<>> is None
GetReplica(job) == IF HasKey(job, "selected_replica") THEN job.selected_replica ELSE <<>>
\* a or b on strings
OrStr(a, b) == IF a # "" THEN a ELSE b

\* Mutant: the element is read and left in the list.
DropRightKeeps(q) == q

\* redis BRPOP / BLPOP: the element taken and the list left
RightEnd(q) == q[Len(q)]
DropRight(q) == SubSeq(q, 1, Len(q) - 1)
LeftEnd(q) == Head(q)
DropLeft(q) == Tail(q)

\* --------------------------------------------------------- encode worker
\* Lines 112-116: the fields the encoder requires.
EncAccepts(item) ==
    /\ item.json = "object"
    /\ OrStr(GetStr(item, "text"), GetStr(item, "query")) # ""
    /\ GetId(item) # NoId

\* Line 129: the Embedded Job.
EmbeddedJob(item) ==
    [json |-> "object", job_id |-> GetId(item), vector |-> "v",
     query |-> OrStr(GetStr(item, "text"), GetStr(item, "query")),
     selected_replica |-> GetReplica(item)]

\* Lines 96-116: BRPOP, parse, validate.  An item that does not parse, is no
\* object (job.get raises, caught at line 131) or lacks a field is dropped.
\* A BRPOP that raises is caught at line 131 and changes nothing.
EncPop(w) ==
    /\ enc[w].pc = "pop"
    /\ encoder_in # <<>>
    /\ encoder_in' = DropRight(encoder_in)
    /\ IF EncAccepts(RightEnd(encoder_in))
       THEN enc' = [enc EXCEPT ![w].pc = "work", ![w].job = <<RightEnd(encoder_in)>>]
       ELSE enc' = enc
    /\ UNCHANGED <<gwvars, retriever_in, llm_in, completion, ret, gen, enable_fallback,
                   writes, injected, calls>>

\* Line 123: the record written when the model cannot be loaded (no expiry).
ModelUnavailable == [error |-> "model unavailable", ex |-> 0]

\* Mutant: no continue after the model-unavailable record.
EncFallsThroughAfterError == TRUE

\* What the encoder does after writing the model-unavailable record (line 124:
\* continue): TRUE if it goes on to encode and push the job.
EncPushesAfterError == FALSE

\* Mutant: the encoder pushes to the generate queue.
EncoderOutIsLlmIn == "job:llm_in"

\* Line 130: the list the encoder pushes the Embedded Job to.
EncoderOut == "job:retriever_in"

EncOutcomes == {"ok", "load_fail", "load_fail_set_error", "encode_error", "push_error"}

\* Lines 118-133: the rest of the loop body for the job held.
EncWork(w, outcome) ==
    /\ enc[w].pc = "work"
    /\ outcome \in {"load_fail", "load_fail_set_error"} => ~enc[w].model
    /\ LET item == enc[w].job[1]
           j == GetId(item)
           failed == outcome \in {"load_fail", "load_fail_set_error"}
           pushes == outcome = "ok" \/ (outcome = "load_fail" /\ EncPushesAfterError)
       IN  /\ enc' = [enc EXCEPT ![w].pc = "pop", ![w].job = <<>>,
                                 ![w].model = IF failed THEN FALSE ELSE TRUE]
           /\ IF outcome = "load_fail"
              THEN /\ completion' = [completion EXCEPT ![j] = <<ModelUnavailable>>]
                   /\ writes' = [writes EXCEPT ![j] = @ + 1]
              ELSE UNCHANGED <<completion, writes>>
           /\ retriever_in' = IF pushes /\ EncoderOut = "job:retriever_in"
                              THEN LPush(retriever_in, EmbeddedJob(item))
                              ELSE retriever_in
           /\ llm_in' = IF pushes /\ EncoderOut = "job:llm_in"
                        THEN LPush(llm_in, EmbeddedJob(item))
                        ELSE llm_in
           /\ calls' = IF pushes THEN [calls EXCEPT ![j].embedded = @ + 1] ELSE calls
    /\ UNCHANGED <<gwvars, encoder_in, ret, gen, enable_fallback, injected>>

\* ------------------------------------------------------- retrieve worker
\* Lines 112-113: json.loads and RAGJob(**job_dict); job_id, query and vector
\* are required.
RetAccepts(item) ==
    /\ item.json = "object"
    /\ HasKey(item, "job_id")
    /\ HasKey(item, "query")
    /\ HasKey(item, "vector")

\* Lines 137-144: the Augmented Job.
AugmentedJob(item) ==
    [json |-> "object", job_id |-> item.job_id, augmented_prompt |-> "p",
     retrieval_time |-> "t"]

\* Lines 105-113: BLPOP, parse, validate; a rejected item is logged (line 153).
RetPop(w) ==
    /\ ret[w].pc = "pop"
    /\ retriever_in # <<>>
    /\ retriever_in' = DropLeft(retriever_in)
    /\ IF RetAccepts(LeftEnd(retriever_in))
       THEN ret' = [ret EXCEPT ![w].pc = "work", ![w].job = <<LeftEnd(retriever_in)>>]
       ELSE ret' = ret
    /\ UNCHANGED <<gwvars, encoder_in, llm_in, completion, enc, gen, enable_fallback,
                   writes, injected, calls>>

\* Line 105: BLPOP is outside the try block; when it raises the loop ends.
RetPopError(w) ==
    /\ ret[w].pc = "pop"
    /\ ret' = [ret EXCEPT ![w].pc = "crashed"]
    /\ UNCHANGED <<gwvars, encoder_in, retriever_in, llm_in, completion, enc, gen,
                   enable_fallback, writes, injected, calls>>

RetOutcomes == {"ok", "search_error", "push_error"}

\* Lines 118-156: search, augment, RPUSH; any error loses the job.
RetWork(w, outcome) ==
    /\ ret[w].pc = "work"
    /\ ret' = [ret EXCEPT ![w].pc = "pop", ![w].job = <<>>]
    /\ llm_in' = IF outcome = "ok" THEN RPush(llm_in, AugmentedJob(ret[w].job[1]))
                 ELSE llm_in
    /\ calls' = IF outcome = "ok"
                THEN [calls EXCEPT ![GetId(ret[w].job[1])].augmented = @ + 1]
                ELSE calls
    /\ UNCHANGED <<gwvars, encoder_in, retriever_in, completion, enc, gen, enable_fallback,
                   writes, injected>>

\* ------------------------------------------------------- generate worker
\* Lines 43-47: the fields the generator requires.
GenPrompt(item) == OrStr(GetStr(item, "augmented_prompt"), GetStr(item, "prompt"))
GenAccepts(item) ==
    /\ item.json = "object"
    /\ GetId(item) # NoId
    /\ GenPrompt(item) # ""

\* A response body of a generation call: shape "answer" ({"answer": s}),
\* "response" ({"response": s}), "empty" (an object with neither).
Body(shape, src, job) == [shape |-> shape, src |-> src, job |-> job]

\* Lines 67 and 88: out.get("answer") or out.get("response") or out
Extract(out) ==
    IF out.shape \in {"answer", "response"} THEN Answer("text", out.src, out.job)
    ELSE Answer("object", out.src, out.job)

\* Mutant: the fallback is tried whether or not it is enabled.
AfterLoopIgnoresSwitch(answer) ==
    IF answer = NoAnswer THEN "fallback" ELSE "write"

\* Line 81: the fallback is tried when there is no answer and it is enabled
\* (LLM_SERVICE_URL has a non-empty default).
AfterLoop(answer) ==
    IF answer = NoAnswer /\ enable_fallback THEN "fallback" ELSE "write"

\* Lines 54-55: the primary target, computed once per job: the replica hint
\* of the job if it carries one, else the configured service.
PrimaryTarget(item) == IF GetReplica(item) # <<>> THEN "replica" ELSE "default"

\* Line 28: BLPOP is outside any try block; when it raises the loop ends.
GenPopError(w) ==
    /\ gen[w].pc = "pop"
    /\ gen' = [gen EXCEPT ![w].pc = "crashed", ![w].exc = "ConnectionError"]
    /\ UNCHANGED <<gwvars, encoder_in, retriever_in, llm_in, completion, enc, ret,
                   enable_fallback, writes, injected, calls>>

\* Lines 28-61: BLPOP, parse, validate, start of the stage.  An item that is
\* no object makes job.get raise outside any try block: the loop ends.
GenPop(w) ==
    /\ gen[w].pc = "pop"
    /\ llm_in # <<>>
    /\ llm_in' = DropLeft(llm_in)
    /\ LET item == LeftEnd(llm_in)
       IN  IF item.json = "array"
           THEN gen' = [gen EXCEPT ![w].pc = "crashed", ![w].exc = "AttributeError"]
           ELSE IF ~GenAccepts(item)
           THEN gen' = gen
           ELSE gen' = [gen EXCEPT ![w].pc = IF MAX_RETRIES >= 1 THEN "attempt"
                                             ELSE AfterLoop(NoAnswer),
                                   ![w].job_id = GetId(item),
                                   ![w].target = PrimaryTarget(item),
                                   ![w].attempt = 1,
                                   ![w].backoff = INITIAL_BACKOFF,
                                   ![w].answer = NoAnswer,
                                   ![w].slept = 0]
    /\ UNCHANGED <<gwvars, encoder_in, retriever_in, completion, enc, ret,
                   enable_fallback, writes, injected, calls>>

CallOutcomes == {"answer", "response", "empty", "array", "req_exc"}

\* Line 72: whether a failed attempt is followed by another one.
RetriesLeft(attempt) == attempt < MAX_RETRIES

\* Mutant: range(1, MAX_RETRIES + 2).
HasNextAttemptOffByOne(attempt) == attempt + 1 <= MAX_RETRIES + 1

\* Line 62: range(1, MAX_RETRIES + 1) has an iteration after this one.
HasNextAttempt(attempt) == attempt + 1 <= MAX_RETRIES

\* Mutant: the backoff grows by INITIAL_BACKOFF instead of doubling.
NextBackoffLinear(backoff) == backoff + INITIAL_BACKOFF

\* Line 74: backoff *= 2
NextBackoff(backoff) == backoff * 2

\* Lines 62-78: one iteration of the retry loop.  A RequestException is
\* retried after the backoff; a body that is no object makes out.get raise an
\* AttributeError, which the loop does not catch: the worker loop ends.
GenAttempt(w, outcome) ==
    /\ gen[w].pc = "attempt"
    /\ LET g == gen[w]
           j == g.job_id
           handled == IF RetriesLeft(g.attempt)
                      THEN [g EXCEPT !.slept = @ + g.backoff,
                                     !.backoff = NextBackoff(@)]
                      ELSE [g EXCEPT !.last_exc = <<[src |-> "primary", job |-> j]>>]
       IN  /\ calls' = [calls EXCEPT ![j].primary = @ + 1,
                                     ![j].failed = IF outcome = "req_exc" THEN @ + 1 ELSE @,
                                     ![j].targets = @ \cup {g.target}]
           /\ IF outcome = "array"
              THEN gen' = [gen EXCEPT ![w].pc = "crashed", ![w].exc = "AttributeError"]
              ELSE IF outcome = "req_exc"
              THEN IF HasNextAttempt(g.attempt)
                   THEN gen' = [gen EXCEPT ![w] = [handled EXCEPT !.attempt = @ + 1]]
                   ELSE gen' = [gen EXCEPT ![w] = [handled EXCEPT !.pc = AfterLoop(g.answer)]]
              ELSE gen' = [gen EXCEPT ![w].answer = Extract(Body(outcome, "primary", j)),
                                      ![w].pc = AfterLoop(Extract(Body(outcome, "primary", j)))]
    /\ UNCHANGED <<gwvars, encoder_in, retriever_in, llm_in, completion, enc, ret,
                   enable_fallback, writes, injected>>

\* Line 91: the degraded answer embeds last_exc if the name is bound (by this
\* job or an earlier one), else the fallback's own error.
Degraded(g) ==
    IF g.last_exc # <<>> THEN Answer("failure", g.last_exc[1].src, g.last_exc[1].job)
    ELSE Answer("failure", "fallback", g.job_id)

\* Lines 81-92: the single fallback call; every error is caught.
GenFallback(w, outcome) ==
    /\ gen[w].pc = "fallback"
    /\ LET g == gen[w]
           j == g.job_id
           failed == outcome \in {"array", "req_exc"}
       IN  /\ calls' = [calls EXCEPT ![j].fallback = @ + 1,
                                     ![j].out = IF failed THEN <<>>
                                                ELSE <<Body(outcome, "fallback", j)>>]
           /\ gen' = [gen EXCEPT ![w].answer = IF failed THEN Degraded(g)
                                               ELSE Extract(Body(outcome, "fallback", j)),
                                 ![w].pc = "write"]
    /\ UNCHANGED <<gwvars, encoder_in, retriever_in, llm_in, completion, enc, ret,
                   enable_fallback, writes, injected>>

\* Mutant: the latency clock started after the retry loop.
CompletionRecordSinceFallback(g) ==
    [job_id |-> g.job_id, answer |-> g.answer, latency_ms |-> 0, ex |-> CompletionTtl]

\* Lines 94-97: the Completion Record; the latency is the time slept in the
\* backoffs (the calls themselves take no time: the least latency possible).
CompletionRecord(g) ==
    [job_id |-> g.job_id, answer |-> g.answer, latency_ms |-> g.slept, ex |-> CompletionTtl]

\* Mutant: one key for every job.
CompletionKeyShared(job_id) == 1

\* Line 96: completion_key = f"job:completion:{job_id}"
CompletionKey(job_id) == job_id

\* Lines 96-102: SET with expiry; an error is logged and the job left without
\* a record.
GenWrite(w, fail) ==
    /\ gen[w].pc = "write"
    /\ LET g == gen[w]
       IN  /\ IF fail
              THEN UNCHANGED <<completion, writes>>
              ELSE /\ completion' = [completion EXCEPT
                                       ![CompletionKey(g.job_id)] = <<CompletionRecord(g)>>]
                   /\ writes' = [writes EXCEPT ![g.job_id] = @ + 1]
           /\ gen' = [gen EXCEPT ![w] = [GenInit EXCEPT !.last_exc = g.last_exc]]
    /\ UNCHANGED <<gwvars, encoder_in, retriever_in, llm_in, enc, ret, enable_fallback,
                   injected, calls>>

\* ------------------------------------------------------ other producers
\* Items that lack a required field, are no object or do not parse, as any
\* client of the store can push them.
BadItems(q) ==
    {[json |-> "bad"], [json |-> "array"]} \cup
    CASE q = "encoder" -> {[json |-> "object", job_id |-> Foreign],
                           [json |-> "object", text |-> "q"]}
      [] q = "retriever" -> {[json |-> "object", job_id |-> Foreign, query |-> "q"],
                             [json |-> "object", query |-> "q", vector |-> "v"]}
      [] q = "llm" -> {[json |-> "object", job_id |-> Foreign],
                       [json |-> "object", augmented_prompt |-> "p"]}

Inject(q, item) ==
    /\ injected < MaxInject
    /\ injected' = injected + 1
    /\ item \in BadItems(q)
    /\ encoder_in' = IF q = "encoder" THEN LPush(encoder_in, item) ELSE encoder_in
    /\ retriever_in' = IF q = "retriever" THEN LPush(retriever_in, item) ELSE retriever_in
    /\ llm_in' = IF q = "llm" THEN RPush(llm_in, item) ELSE llm_in
    /\ UNCHANGED <<gwvars, completion, wkvars, writes, calls>>

\* Well-formed Augmented Jobs carrying the job_id of a dispatched job: a
\* second delivery of a job the pipeline also delivers.
DupItems == {[json |-> "object", job_id |-> j, augmented_prompt |-> "p"] : j \in Req}

InjectDup(item) ==
    /\ injected < MaxInject
    /\ injected' = injected + 1
    /\ item \in DupItems
    /\ llm_in' = RPush(llm_in, item)
    /\ UNCHANGED <<gwvars, encoder_in, retriever_in, completion, wkvars, writes, calls>>

\* ---------------------------------------------------------------- specs
\* The workers when no call and no store command of theirs fails.
WorkersNominal ==
    \/ \E w \in Workers : EncPop(w)
    \/ \E w \in Workers : EncWork(w, "ok")
    \/ \E w \in Workers : RetPop(w)
    \/ \E w \in Workers : RetWork(w, "ok")
    \/ \E w \in Workers : GenPop(w)
    \/ \E w \in Workers : GenAttempt(w, "answer")
    \/ \E w \in Workers : GenWrite(w, FALSE)

\* Encode and retrieve workers with every outcome of their calls and store
\* commands.
UpstreamFaulty ==
    \/ \E w \in Workers : EncPop(w)
    \/ \E w \in Workers, o \in EncOutcomes : EncWork(w, o)
    \/ \E w \in Workers : RetPop(w)
    \/ \E w \in Workers : RetPopError(w)
    \/ \E w \in Workers, o \in RetOutcomes : RetWork(w, o)

\* Encode and retrieve workers when nothing of theirs fails.
UpstreamNominal ==
    \/ \E w \in Workers : EncPop(w)
    \/ \E w \in Workers : EncWork(w, "ok")
    \/ \E w \in Workers : RetPop(w)
    \/ \E w \in Workers : RetWork(w, "ok")

\* Generate worker with every outcome of its calls and store commands.
GenFaulty ==
    \/ \E w \in Workers : GenPop(w)
    \/ \E w \in Workers : GenPopError(w)
    \/ \E w \in Workers, o \in CallOutcomes : GenAttempt(w, o)
    \/ \E w \in Workers, o \in CallOutcomes : GenFallback(w, o)
    \/ \E w \in Workers, fail \in BOOLEAN : GenWrite(w, fail)

\* Generate worker whose first call answers or returns a body that is no
\* object, and whose store commands may raise.
GenFirstCall ==
    \/ \E w \in Workers : GenPop(w)
    \/ \E w \in Workers : GenPopError(w)
    \/ \E w \in Workers, o \in {"answer", "array"} : GenAttempt(w, o)
    \/ \E w \in Workers, fail \in BOOLEAN : GenWrite(w, fail)

InjectInto(Q) == \E q \in Q : \E item \in BadItems(q) : Inject(q, item)

\* Gateway under store faults, over a pipeline without faults.
Next ==
    \/ Gateway
    \/ WorkersNominal

Spec == Init /\ [][Next]_vars

\* The workers start with or without the embedding model (lines 91-93).
InitWorkers ==
    /\ InitStore
    /\ load = [i \in Replicas |-> <<>>]
    /\ redis_client = TRUE
    /\ enc \in [Workers -> {EncInit, [EncInit EXCEPT !.model = FALSE]}]
    /\ enable_fallback = TRUE

\* The stage handoff under faults, fed by the gateway's dispatches and by
\* other producers.
NextWorkers ==
    \/ \E r \in Req, t \in Texts : GwDispatch(r, t)
    \/ UpstreamFaulty
    \/ GenFirstCall
    \/ InjectInto({"encoder", "retriever", "llm"})

SpecWorkers == InitWorkers /\ [][NextWorkers]_vars

\* The generator runs with the fallback enabled or not (line 20).
InitGen ==
    /\ InitStore
    /\ load = [i \in Replicas |-> <<>>]
    /\ redis_client = TRUE
    /\ enc = [w \in Workers |-> EncInit]
    /\ enable_fallback \in BOOLEAN

\* The retry/fallback protocol under faults, fed by a pipeline without faults.
NextGen ==
    \/ \E r \in Req : GwDispatch(r, "q")
    \/ UpstreamNominal
    \/ GenFaulty

SpecGen == InitGen /\ [][NextGen]_vars

\* get_least_loaded_replica on every combination of counters, a missing key
\* included, with the store reachable.
InitSelect ==
    /\ InitStore
    /\ load \in [Replicas -> {<<>>} \cup {<<n>> : n \in 0..MaxLoad}]
    /\ redis_client = TRUE
    /\ enc = [w \in Workers |-> EncInit]
    /\ enable_fallback = TRUE

NextSelect ==
    \/ \E r \in Req : GwStart(r, TRUE)
    \/ \E r \in Req : GwSelectRead(r, FALSE)

SpecSelect == InitSelect /\ [][NextSelect]_vars

\* Requests that poll until the record or the deadline, over a pipeline that
\* may write the model-unavailable record and may be handed a job twice.
NextDup ==
    \/ \E r \in Req : GwDispatch(r, "q")
    \/ \E r \in Req, late \in BOOLEAN : GwPoll(r, FALSE, late)
    \/ \E r \in Req : GwCleanup(r, FALSE)
    \/ UpstreamNominal
    \/ \E w \in Workers : EncWork(w, "load_fail")
    \/ \E w \in Workers : GenPop(w)
    \/ \E w \in Workers : GenAttempt(w, "answer")
    \/ \E w \in Workers : GenWrite(w, FALSE)
    \/ \E item \in DupItems : InjectDup(item)

SpecDup == InitWorkers /\ [][NextDup]_vars

\* Line 125: job_id is a fresh uuid4, so the names of the jobs carry no order;
\* here the requests are named in the order the gateway handles them.
DispatchInOrder(r, t) ==
    /\ \A q \in 1..(r - 1) : calls[q].published >= 1
    /\ GwDispatch(r, t)

\* One worker per stage, the gateway and the workers up, the model loaded.
InitFifo ==
    /\ InitStore
    /\ load = [i \in Replicas |-> <<>>]
    /\ redis_client = TRUE
    /\ enc = [w \in Workers |-> EncInit]
    /\ enable_fallback = TRUE

\* Requests handled one after the other and polling, over a pipeline of one
\* worker per stage in which no call and no store command fails.
NextFifo ==
    \/ \E r \in Req : DispatchInOrder(r, "q")
    \/ \E r \in Req, late \in BOOLEAN : GwPoll(r, FALSE, late)
    \/ \E r \in Req : GwCleanup(r, FALSE)
    \/ \E w \in {1} : EncPop(w)
    \/ \E w \in {1} : EncWork(w, "ok")
    \/ \E w \in {1} : RetPop(w)
    \/ \E w \in {1} : RetWork(w, "ok")
    \/ \E w \in {1} : GenPop(w)
    \/ \E w \in {1} : GenAttempt(w, "answer")
    \/ \E w \in {1} : GenWrite(w, FALSE)

SpecFifo == InitFifo /\ [][NextFifo]_vars

\* The histories of a job nobody has published yet.
NoCalls ==
    [primary |-> 0, fallback |-> 0, out |-> <<>>, targets |-> {}, failed |-> 0,
     published |-> 0, embedded |-> 0, augmented |-> 0]

\* Lines 106-125: a further request arrives.  Its job_id is a fresh uuid4:
\* no record, no queue item and no history exists under it.  It takes the
\* name r of a request that has ended and whose job has left the pipeline.
GwNextRequest(r) ==
    /\ req[r].pc = "done"
    /\ completion[r] # <<>>
    /\ \A k \in 1..Len(encoder_in) : GetId(encoder_in[k]) # r
    /\ \A k \in 1..Len(retriever_in) : GetId(retriever_in[k]) # r
    /\ \A k \in 1..Len(llm_in) : GetId(llm_in[k]) # r
    /\ \A w \in Workers :
          /\ enc[w].job # <<>> => GetId(enc[w].job[1]) # r
          /\ ret[w].job # <<>> => GetId(ret[w].job[1]) # r
          /\ gen[w].job_id # r
    /\ req' = [req EXCEPT ![r] = ReqInit]
    /\ completion' = [completion EXCEPT ![r] = <<>>]
    /\ writes' = [writes EXCEPT ![r] = 0]
    /\ calls' = [calls EXCEPT ![r] = NoCalls]
    /\ UNCHANGED <<redis_client, rr_counter, load, encoder_in, retriever_in, llm_in,
                   wkvars, injected>>

\* Requests that keep arriving, over a pipeline of one worker per stage in
\* which no call and no store command fails.
NextLive ==
    \/ \E r \in Req : GwDispatch(r, "q")
    \/ \E r \in Req, late \in BOOLEAN : GwPoll(r, FALSE, late)
    \/ \E r \in Req : GwCleanup(r, FALSE)
    \/ \E r \in Req : GwNextRequest(r)
    \/ \E w \in {1} : EncPop(w)
    \/ \E w \in {1} : EncWork(w, "ok")
    \/ \E w \in {1} : RetPop(w)
    \/ \E w \in {1} : RetWork(w, "ok")
    \/ \E w \in {1} : GenPop(w)
    \/ \E w \in {1} : GenAttempt(w, "answer")
    \/ \E w \in {1} : GenWrite(w, FALSE)

\* Every worker loop keeps running: each of its steps is taken if it stays
\* possible.  Nothing is assumed of the clients.
WorkersFair ==
    /\ WF_vars(EncPop(1))
    /\ WF_vars(EncWork(1, "ok"))
    /\ WF_vars(RetPop(1))
    /\ WF_vars(RetWork(1, "ok"))
    /\ WF_vars(GenPop(1))
    /\ WF_vars(GenAttempt(1, "answer"))
    /\ WF_vars(GenWrite(1, FALSE))

SpecLive == InitFifo /\ [][NextLive]_vars /\ WorkersFair

\* ================================================================ claims
Range(q) == {q[k] : k \in 1..Len(q)}

\* No queue and no encode or retrieve worker holds an item of job j.
NotQueued(j) ==
    /\ \A item \in Range(encoder_in) \cup Range(retriever_in) \cup Range(llm_in) :
          GetId(item) # j
    /\ \A w \in Workers :
          /\ enc[w].job # <<>> => GetId(enc[w].job[1]) # j
          /\ ret[w].job # <<>> => GetId(ret[w].job[1]) # j

\* The generate worker w is processing job j.
GenBusyWith(w, j) == gen[w].job_id = j /\ gen[w].pc \in {"attempt", "fallback", "write"}

\* C1: in every reachable state, the states between a DECR and its clamp
\* included, every replica load counter of the store is >= 0.
C1_CountersNonNegative == \A i \in Replicas : IntOr0(load[i]) >= 0

\* Two requests incremented the same counter; one timed out and decremented in
\* its cleanup, the other failed to publish and decremented in its handler;
\* the counter is back at 0.
C1_Witness ==
    \E r1 \in Req, r2 \in Req :
        /\ req[r1].status = 504 /\ req[r1].incd = 1 /\ req[r1].decs = 1
        /\ req[r2].status = 503 /\ req[r2].incd = 1 /\ req[r2].decs = 1
        /\ req[r1].replica_idx = req[r2].replica_idx
        /\ load[req[r1].replica_idx] = <<0>>

\* C2: with the store reachable, get_least_loaded_replica returns the lowest
\* index among those of minimal counter value, a missing key counting as 0;
\* for the counters [2,0,1] it returns 1.
C2_LeastLoadedLowestIndex ==
    \A r \in Req :
        req[r].pc = "incr" =>
            /\ \A i \in Replicas :
                  \/ IntOr0(load[req[r].replica_idx]) < IntOr0(load[i])
                  \/ /\ IntOr0(load[req[r].replica_idx]) = IntOr0(load[i])
                     /\ req[r].replica_idx <= i
            /\ (load[0] = <<2>> /\ load[1] \in {<<>>, <<0>>} /\ load[2] = <<1>>)
                  => req[r].replica_idx = 1

\* A selection over the counters [2,0,1] has returned.
C2_Witness ==
    \E r \in Req :
        /\ req[r].pc = "incr"
        /\ load[0] = <<2>> /\ load[1] = <<0>> /\ load[2] = <<1>>
        /\ req[r].replica_idx = 1

\* C3: a request that ends with the timeout response (504) has issued exactly
\* one DECR of the counter it incremented.
C3_TimeoutDecrementsOnce ==
    \A r \in Req :
        (req[r].pc = "done" /\ req[r].status = 504 /\ req[r].incd = 1) => req[r].decs = 1

\* C4: every request that incremented a counter has, when it ends, issued
\* exactly one DECR of it, whatever the path.
C4_NoCounterLeak ==
    \A r \in Req : (req[r].pc = "done" /\ req[r].incd = 1) => req[r].decs = 1

\* C5: a request whose publish failed after its increment ends with 503, has
\* issued one DECR, never polled, and has no Query Job in any queue.
C5_PublishFailureRollsBack ==
    \A r \in Req :
        (req[r].pc = "done" /\ req[r].status = 503 /\ req[r].incd = 1) =>
            /\ req[r].decs = 1
            /\ req[r].polls = 0
            /\ NotQueued(r)

\* C6: every job the generate worker took (it made a generation call for it)
\* and is no longer processing has a Completion Record.
C6_RecordAlwaysWritten ==
    \A j \in Req :
        (calls[j].primary >= 1 /\ \A w \in Workers : ~GenBusyWith(w, j))
            => completion[j] # <<>>

\* C7: when all MAX_RETRIES primary attempts failed and the fallback call
\* succeeded, the Completion Record holds the answer of the fallback's response
\* for that job and a latency of at least INITIAL_BACKOFF * (1 + 2 + 4 + 8).
C7_FallbackAnswerAndLatency ==
    \A j \in Req :
        (/\ completion[j] # <<>>
         /\ calls[j].primary = MAX_RETRIES
         /\ calls[j].fallback = 1
         /\ calls[j].out # <<>>) =>
            /\ completion[j][1].answer.src = "fallback"
            /\ completion[j][1].answer.job = j
            /\ calls[j].out[1].shape \in {"answer", "response"}
                  => completion[j][1].answer.kind = "text"
            /\ completion[j][1].latency_ms >= INITIAL_BACKOFF * (1 + 2 + 4 + 8)

\* A record written after five failed primary attempts and a fallback call
\* that returned {"answer": ...}.
C7_Witness ==
    \E j \in Req :
        /\ completion[j] # <<>>
        /\ calls[j].primary = MAX_RETRIES
        /\ calls[j].fallback = 1
        /\ calls[j].out # <<>>
        /\ calls[j].out[1].shape = "answer"

\* C8: when all primary attempts and the fallback call failed, then once the
\* worker is done with the job its Completion Record exists, its answer is the
\* string embedding the job's last primary error, and the worker loop has not
\* ended.
C8_TotalFailureStillWritten ==
    \A j \in Req :
        (/\ calls[j].primary = MAX_RETRIES
         /\ calls[j].fallback = 1
         /\ calls[j].out = <<>>
         /\ \A w \in Workers : ~GenBusyWith(w, j)) =>
            /\ completion[j] # <<>>
            /\ completion[j][1].answer = Answer("failure", "primary", j)
            /\ \A w \in Workers : ~(gen[w].pc = "crashed" /\ gen[w].job_id = j)

\* C9: an item that does not parse, is no object or lacks a required field
\* yields no Completion Record and no downstream item, is held by no worker
\* after the pop, and does not end the worker loop that popped it.
C9_MalformedDropped ==
    /\ completion[Foreign] = <<>>
    /\ \A item \in Range(retriever_in) :
          GetId(item) \in Req \/ item \in BadItems("retriever")
    /\ \A item \in Range(llm_in) : GetId(item) \in Req \/ item \in BadItems("llm")
    /\ \A w \in Workers :
          /\ enc[w].job # <<>> => GetId(enc[w].job[1]) \in Req
          /\ ret[w].job # <<>> => GetId(ret[w].job[1]) \in Req
          /\ gen[w].pc \in {"attempt", "fallback", "write"} => gen[w].job_id \in Req
          /\ ~(gen[w].pc = "crashed" /\ gen[w].exc = "AttributeError"
               /\ gen[w].job_id = NoId)

\* C10: over the whole run at most one SET is applied to the completion key
\* of each job_id the gateway dispatched.
C10_AtMostOneWrite == \A j \in Req : writes[j] <= 1

\* Two dispatched jobs got their one write each: one from the encoder (model
\* unavailable), one from the generate worker.
C10_Witness ==
    \E j1 \in Req, j2 \in Req :
        /\ writes[j1] = 1 /\ completion[j1] = <<ModelUnavailable>>
        /\ writes[j2] = 1 /\ completion[j2] # <<>>
        /\ "job_id" \in DOMAIN completion[j2][1]

\* C11: a step that writes the Completion Record of job j (first, late or
\* duplicate) leaves the record of every other job, every queue and every load
\* counter unchanged, and when it writes the record already stored it leaves
\* the whole store unchanged.
C11_WriteTouchesOnlyItsKey ==
    [][\A j \in Jobs :
          writes'[j] # writes[j] =>
              /\ \A k \in Jobs \ {j} : completion'[k] = completion[k]
              /\ UNCHANGED <<encoder_in, retriever_in, llm_in, load>>
              /\ completion'[j] = completion[j] => completion' = completion]_vars

\* A job was written twice, the second time after its request had timed out,
\* while another job holds its own record.
C11_Witness ==
    \E j \in Req, k \in Req :
        /\ j # k
        /\ writes[j] = 2
        /\ req[j].status = 504
        /\ completion[k] # <<>>
        /\ "job_id" \in DOMAIN completion[k][1]
        /\ completion[k][1].job_id = k

\* C12: a request that found no store client and was routed by the local
\* round-robin counter does not end with the dispatch failure (503).
C12_UnreachableStoreDegrades ==
    \A r \in Req : (req[r].pc = "done" /\ req[r].rr) => req[r].status # 503

\* C13: every request that ends with a response ends with 200, 504 or 503.
C13_ThreeOutcomes ==
    \A r \in Req :
        (req[r].pc = "done" /\ ~req[r].cancelled) => req[r].status \in {200, 503, 504}

\* C14: a request cancelled in the poll loop's sleep has, when its task exits,
\* issued exactly one DECR of the counter it incremented.
C14_CancelDecrementsOnce ==
    \A r \in Req :
        (req[r].pc = "done" /\ req[r].cancelled /\ req[r].incd = 1) => req[r].decs = 1

\* C15: no error raised while a stage worker pops or processes a job ends that
\* worker's loop.
C15_WorkerLoopSurvives ==
    \A w \in Workers :
        /\ enc[w].pc # "crashed"
        /\ ret[w].pc # "crashed"
        /\ gen[w].pc # "crashed"

\* C16: every value stored under a completion key carries the one-hour expiry.
C16_EveryRecordExpires ==
    \A j \in Jobs : completion[j] # <<>> => completion[j][1].ex = CompletionTtl

\* The Query Job of request r has been pushed to the encode queue.
Published(r) ==
    \/ req[r].pc \in {"poll", "cleanup", "clamp"}
    \/ req[r].pc = "done" /\ req[r].status # 503

\* C17 as stated: whenever the Query Job of a request has been published, the
\* request's increment has been applied to the store.
C17_IncrementBeforePublish ==
    \A r \in Req : Published(r) => req[r].incd = 1

\* C17 amended: whenever the Query Job of a request has been published, the
\* request's increment has been applied to the store, or its INCR raised and
\* the request holds no load_key.
C17_IncrementAppliedOrRaised ==
    \A r \in Req : Published(r) => (req[r].incd = 1 \/ ~req[r].load_key)

\* One request published after its applied increment and still holds its
\* load_key; another published after an INCR that raised.
C17_Witness ==
    \E r1 \in Req, r2 \in Req :
        /\ Published(r1) /\ req[r1].incd = 1 /\ req[r1].load_key
        /\ Published(r2) /\ req[r2].incd = 0 /\ ~req[r2].load_key

\* C18: in every state each replica counter equals the number of requests
\* whose increment of it was applied and whose decrement was not, and no
\* request is about to write the clamp.
C18_NoLostUpdate ==
    /\ \A i \in Replicas :
          IntOr0(load[i]) =
              Cardinality({r \in Req : /\ req[r].incd = 1
                                       /\ req[r].decd = 0
                                       /\ req[r].replica_idx = i})
    /\ \A r \in Req : req[r].pc # "clamp"

\* Two requests raced to the same replica; one has decremented, the other is
\* still polling, and the counter is 1.
C18_Witness ==
    \E r1 \in Req, r2 \in Req :
        /\ req[r1].replica_idx = req[r2].replica_idx
        /\ req[r1].incd = 1 /\ req[r1].decd = 1
        /\ req[r2].incd = 1 /\ req[r2].decd = 0 /\ req[r2].pc = "poll"
        /\ load[req[r2].replica_idx] = <<1>>

\* C19: the primary target is called at most MAX_RETRIES times for a job, no
\* attempt follows a call that gave an answer, and all attempts of a job
\* address one target.
C19_PrimaryAttemptsBounded ==
    /\ \A j \in Req :
          /\ calls[j].primary <= MAX_RETRIES
          /\ Cardinality(calls[j].targets) <= 1
    /\ \A w \in Workers :
          gen[w].pc = "attempt" =>
              /\ gen[w].answer = NoAnswer
              /\ gen[w].attempt <= MAX_RETRIES
              /\ calls[gen[w].job_id].primary = gen[w].attempt - 1

\* A job answered by its third primary attempt: three calls, then the record.
C19_Witness ==
    \E j \in Req :
        /\ calls[j].primary = 3
        /\ calls[j].fallback = 0
        /\ completion[j] # <<>>
        /\ completion[j][1].answer = Answer("text", "primary", j)

RECURSIVE Pow2(_)
Pow2(n) == IF n = 0 THEN 1 ELSE 2 * Pow2(n - 1)

\* C20: before attempt k+1 of a job the worker has waited INITIAL_BACKOFF *
\* 2^(i-1) after each failed attempt i <= k, and the next wait is
\* INITIAL_BACKOFF * 2^k, whatever the jobs the worker processed before.
C20_BackoffDoubles ==
    \A w \in Workers :
        gen[w].pc = "attempt" =>
            /\ gen[w].backoff = INITIAL_BACKOFF * Pow2(gen[w].attempt - 1)
            /\ gen[w].slept = INITIAL_BACKOFF * (Pow2(gen[w].attempt - 1) - 1)

\* A worker whose previous job used up all its retries is at the second
\* attempt of another job, having waited INITIAL_BACKOFF once.
C20_Witness ==
    \E w \in Workers :
        /\ gen[w].pc = "attempt"
        /\ gen[w].attempt = 2
        /\ gen[w].last_exc # <<>>
        /\ gen[w].last_exc[1].job # gen[w].job_id
        /\ gen[w].slept = INITIAL_BACKOFF

\* C21: the fallback is called at most once for a job; it is called only when
\* it is enabled and all MAX_RETRIES primary attempts failed, and then, once
\* the worker is past the call, exactly once.
C21_FallbackExactlyOnce ==
    \A j \in Req :
        /\ calls[j].fallback <= 1
        /\ calls[j].fallback = 1 => (enable_fallback /\ calls[j].failed = MAX_RETRIES)
        /\ (/\ calls[j].failed = MAX_RETRIES
            /\ enable_fallback
            /\ \A w \in Workers : ~(gen[w].pc = "fallback" /\ gen[w].job_id = j))
              => calls[j].fallback = 1

\* All primary attempts of a job failed, its one fallback call failed too, and
\* the record with the degraded answer was written without another call.
C21_Witness ==
    \E j \in Req :
        /\ calls[j].failed = MAX_RETRIES
        /\ calls[j].fallback = 1
        /\ calls[j].out = <<>>
        /\ completion[j] # <<>>
        /\ completion[j][1].answer.kind = "failure"

\* The Embedded Jobs of dispatched jobs, queued or held by a retrieve worker.
EmbeddedJobs ==
    {item \in Range(retriever_in) : GetId(item) \in Req}
        \cup {ret[w].job[1] : w \in {v \in Workers : ret[v].job # <<>>}}

\* C22: the selected_replica of the Embedded Job of job j is the replica index
\* the gateway selected for j and put in its Query Job.
C22_ReplicaCarried ==
    \A item \in EmbeddedJobs :
        GetReplica(item) = <<req[GetId(item)].replica_idx>>

\* Items of job j in a queue q.
InQueue(q, j) == Cardinality({k \in 1..Len(q) : GetId(q[k]) = j})

\* C23: every item in a stage's queue and every job held by a stage's worker
\* was pushed by the previous stage, and a stage has pushed a job only after
\* the previous stage pushed it.
C23_CausalOrder ==
    /\ \A j \in Req :
          /\ InQueue(encoder_in, j) > 0 => calls[j].published >= 1
          /\ InQueue(retriever_in, j) > 0 => calls[j].embedded >= 1
          /\ InQueue(llm_in, j) > 0 => calls[j].augmented >= 1
          /\ calls[j].embedded >= 1 => calls[j].published >= 1
          /\ calls[j].augmented >= 1 => calls[j].embedded >= 1
          /\ calls[j].primary >= 1 => calls[j].augmented >= 1
    /\ \A w \in Workers :
          /\ enc[w].job # <<>> => calls[GetId(enc[w].job[1])].published >= 1
          /\ ret[w].job # <<>> => calls[GetId(ret[w].job[1])].embedded >= 1
          /\ gen[w].pc \in {"attempt", "fallback", "write"} =>
                calls[gen[w].job_id].augmented >= 1

\* One job went through the three stages and has its record while the other
\* is still waiting in the encode queue.
C23_Witness ==
    \E j \in Req, k \in Req :
        /\ calls[j].published = 1 /\ calls[j].embedded = 1 /\ calls[j].augmented = 1
        /\ completion[j] # <<>>
        /\ InQueue(encoder_in, k) = 1
        /\ calls[k].embedded = 0

\* Workers of a stage holding job j.
EncHolders(j) == Cardinality({w \in Workers : enc[w].job # <<>> /\ GetId(enc[w].job[1]) = j})
RetHolders(j) == Cardinality({w \in Workers : ret[w].job # <<>> /\ GetId(ret[w].job[1]) = j})
GenHolders(j) == Cardinality({w \in Workers : GenBusyWith(w, j)})

\* C24: for every dispatched job there is at most one Embedded Job and one
\* Augmented Job over the run, and the copies of the job at a stage (in its
\* queue or held by one of its workers) never exceed what was pushed to it.
C24_AtMostOncePerStage ==
    \A j \in Req :
        /\ calls[j].published <= 1
        /\ calls[j].embedded <= 1
        /\ calls[j].augmented <= 1
        /\ InQueue(encoder_in, j) + EncHolders(j) <= calls[j].published
        /\ InQueue(retriever_in, j) + RetHolders(j) <= calls[j].embedded
        /\ InQueue(llm_in, j) + GenHolders(j) <= calls[j].augmented

\* The two retrieve workers hold one Embedded Job each, of different jobs.
C24_Witness ==
    \E w1 \in Workers, w2 \in Workers :
        /\ w1 # w2
        /\ ret[w1].job # <<>> /\ ret[w2].job # <<>>
        /\ GetId(ret[w1].job[1]) # GetId(ret[w2].job[1])
        /\ calls[GetId(ret[w1].job[1])].embedded = 1
        /\ calls[GetId(ret[w2].job[1])].embedded = 1

\* C25: the poll loop makes at most MaxPolls sleeps; a request that left the
\* loop has read the key at least once; a request still in the loop has found
\* no record; a request that timed out made no read after its last check.
C25_PollLoopStops ==
    \A r \in Req :
        /\ req[r].polls <= MaxPolls
        /\ req[r].reads <= req[r].polls + 1
        /\ (req[r].pc \in {"cleanup", "clamp", "done"} /\ calls[r].published = 1)
              => req[r].reads >= 1
        /\ req[r].pc = "poll" =>
              (req[r].result = <<>> /\ ~req[r].exc /\ req[r].polls < MaxPolls)
        /\ req[r].status = 504 => req[r].reads = req[r].polls

\* One request timed out after MaxPolls reads; the other found its record at
\* its second read.
C25_Witness ==
    \E r1 \in Req, r2 \in Req :
        /\ req[r1].status = 504 /\ req[r1].reads = MaxPolls
        /\ req[r2].status = 200 /\ req[r2].reads = 2

\* C26: a 200 response of request r carries the answer of the record stored
\* under r's job_id, produced for job r, and the label of the replica index
\* selected for r plus one.
C26_ResponseIsOwn ==
    \A r \in Req :
        req[r].status = 200 =>
            /\ completion[r] # <<>>
            /\ req[r].answer = AnswerOf(completion[r])
            /\ req[r].answer.job = r
            /\ req[r].label = req[r].replica_idx + 1

\* Two requests routed to different replicas both got their 200.
C26_Witness ==
    \E r1 \in Req, r2 \in Req :
        /\ req[r1].status = 200 /\ req[r1].replica_idx = 0 /\ req[r1].label = 1
        /\ req[r2].status = 200 /\ req[r2].replica_idx = 1 /\ req[r2].label = 2

\* C27: a step of request r leaves the Completion Records and the retrieve and
\* generate queues unchanged; it changes the encode queue only by pushing r's
\* one Query Job; in the poll loop it changes neither queue nor counter; and
\* it changes no counter but the one of the replica selected for r; it has
\* pushed at most one Query Job, and exactly one when it answers 200 or 504.
C27_GatewayFrame ==
    [][\A r \in Req :
          req'[r] # req[r] =>
              /\ UNCHANGED <<completion, retriever_in, llm_in>>
              /\ encoder_in' # encoder_in =>
                    /\ req[r].pc = "publish"
                    /\ \E t \in Texts :
                          encoder_in' = LPush(encoder_in, QueryJob(r, t, req[r].replica_idx))
              /\ req[r].pc = "poll" => UNCHANGED <<load, encoder_in>>
              /\ \A i \in Replicas \ {req[r].replica_idx} : load'[i] = load[i]
              /\ calls'[r].published <= 1
              /\ req'[r].status \in {200, 504} => calls'[r].published = 1]_vars

\* A request got its 200: it published once, its record is still stored and
\* its counter is back at 0.
C27_Witness ==
    \E r \in Req :
        /\ req[r].status = 200
        /\ calls[r].published = 1
        /\ completion[r] # <<>>
        /\ req[r].decd = 1
        /\ load[req[r].replica_idx] = <<0>>

\* C28: the step in which request r times out leaves the queues, the workers
\* and the records as they are; afterwards the request never changes again,
\* and a step that writes r's record leaves the counters unchanged.
C28_TimeoutAbandonsJob ==
    [][\A r \in Req :
          /\ req[r].pc = "done" => req'[r] = req[r]
          /\ (req'[r].status = 504 /\ req[r].status # 504) =>
                UNCHANGED <<encoder_in, retriever_in, llm_in, completion, enc, ret, gen>>
          /\ (req[r].status = 504 /\ completion'[r] # completion[r]) =>
                UNCHANGED load]_vars

\* A request timed out and decremented its counter; its job went on and its
\* record is in the store.
C28_Witness ==
    \E r \in Req :
        /\ req[r].status = 504
        /\ req[r].decd = 1
        /\ load[req[r].replica_idx] = <<0>>
        /\ writes[r] = 1
        /\ completion[r] # <<>>

\* C29: a selection whose reads all raised returns index 0; the round-robin
\* counter counts the requests that found no store client, and no request
\* with a client used it.
C29_UnreachableStoreSelectsZero ==
    /\ \A r \in Req :
          /\ (req[r].pc = "incr" /\ req[r].read_fails = NReplicas) => req[r].replica_idx = 0
          /\ req[r].rr => ~req[r].client
    /\ rr_counter = Cardinality({r \in Req : req[r].rr})

\* Every read of a selection raised while replica 0 held a job: index 0 was
\* returned although replica 1 was idle.
C29_Witness ==
    \E r \in Req :
        /\ req[r].pc = "incr"
        /\ req[r].read_fails = NReplicas
        /\ req[r].replica_idx = 0
        /\ load[0] = <<1>>

\* C30: no request has issued more decrements than it has applied increments,
\* a request routed by round-robin has issued none, and a step that lowers
\* the counter of replica i is a decrement by a request that selected i and
\* incremented it.
C30_DecrementOnlyOwnIncrement ==
    [][/\ \A r \in Req :
            /\ req'[r].decs <= req'[r].incd
            /\ req'[r].rr => req'[r].decs = 0
       /\ \A i \in Replicas :
            IntOr0(load'[i]) < IntOr0(load[i]) =>
                \E r \in Req : /\ req[r].incd = 1
                                /\ req[r].replica_idx = i
                                /\ req'[r].decs = req[r].decs + 1]_vars

\* A request whose INCR raised timed out without a decrement, while the other
\* request, routed to replica 1, incremented and decremented its counter.
C30_Witness ==
    \E r1 \in Req, r2 \in Req :
        /\ req[r1].status = 504 /\ req[r1].incd = 0 /\ req[r1].decs = 0
        /\ req[r2].incd = 1 /\ req[r2].decd = 1

\* C31: every Completion Record written by the Generate Worker has an answer
\* that is not null, whatever the primary and fallback calls returned and
\* whether the fallback is enabled or not.
C31_AnswerNeverNull ==
    \A j \in Jobs :
        (completion[j] # <<>> /\ "answer" \in DOMAIN completion[j][1])
            => completion[j][1].answer.kind # "null"

\* C32: every stored Completion Record has the shape the Generate Worker
\* writes and carries the job_id of its key, and the answer of every 200
\* response was produced by a generation endpoint for the request's job.
C32_OnlyGenerateWrites ==
    /\ \A j \in Jobs :
          completion[j] # <<>> =>
              /\ {"job_id", "answer", "latency_ms"} \subseteq DOMAIN completion[j][1]
              /\ completion[j][1].job_id = j
    /\ \A r \in Req :
          req[r].status = 200 =>
              /\ req[r].answer.src \in {"primary", "fallback"}
              /\ req[r].answer.job = r

\* C33: with one worker per stage and no failure, a job published before
\* another one is embedded, augmented, sent to the model and given its
\* Completion Record before the other one is.
C33_FifoPerStage ==
    \A a \in Req, b \in Req :
        a < b =>
            /\ calls[b].embedded >= 1 => calls[a].embedded >= 1
            /\ calls[b].augmented >= 1 => calls[a].augmented >= 1
            /\ calls[b].primary >= 1 => calls[a].primary >= 1
            /\ writes[b] >= 1 => writes[a] >= 1

\* C34: with the store reachable, every call succeeding and every worker
\* running, a published Query Job eventually has its Completion Record, also
\* while further jobs keep being published.
C34_EveryJobCompletes ==
    \A j \in Req : (calls[j].published >= 1) ~> (completion[j] # <<>>)

====
